---- MODULE Spec2Model ----
(***************************************************************************)
(* Request dispatch and typed response decoding of the traduora client     *)
(* library: scope gating, request building, the transport exchange and     *)
(* process_response with the default and the custom mapping functions.     *)
(*                                                                         *)
(* A response body is a sequence of JSON lexemes; serde_json::from_slice   *)
(* is a recursive-descent parser over that sequence and from_value is a    *)
(* type-directed decoder, so parsing, enveloping and decoding are          *)
(* computed, not assumed.                                                  *)
(***************************************************************************)
EXTENDS Integers, Sequences, FiniteSets, TLC

(***************************************************************************)
(* Bounds of the model.                                                    *)
(***************************************************************************)
\* largest integer used for u64 fields of models (0..MaxNum)
MaxNum == 1
\* longest Vec<_> model value
MaxVec == 1
\* longest truncated (cut off) body that the transport may deliver
MaxTrunc == 2

(***************************************************************************)
(* serde_json::Value (null, number, string, array, object).                *)
(***************************************************************************)
JNull == [t |-> "null"]
JNum(n) == [t |-> "num", n |-> n]
JStr(s) == [t |-> "str", s |-> s]
JArr(a) == [t |-> "arr", a |-> a]
JObj(m) == [t |-> "obj", m |-> m]

EmptyMap == [k \in {} |-> JNull]
Obj1(k1, v1) == JObj([k \in {k1} |-> v1])
Obj2(k1, v1, k2, v2) == JObj([k \in {k1, k2} |-> IF k = k1 THEN v1 ELSE v2])

\* the object keys that occur on the wire, in the order a sorted map emits them
KeyOrder ==
  << "accessToken", "access_token", "clientId", "data", "email", "error",
     "expires_in", "grant_type", "id", "message", "name",
     "numProjectsCreated", "password", "redirectUrl", "slug", "token_type",
     "unexpected_key", "url", "username" >>

(***************************************************************************)
(* Lexemes of a body.                                                      *)
(***************************************************************************)
P(c) == [k |-> "p", c |-> c]
TNull == [k |-> "null"]
TNum(n) == [k |-> "num", n |-> n]
TStr(s) == [k |-> "str", s |-> s]
\* a word that starts no JSON value, such as `not` in the body `not json`
TJunk == [k |-> "junk"]

RECURSIVE to_vec(_)
RECURSIVE EncItems(_)
RECURSIVE EncMembers(_, _)

\* elements of an array, separated by commas
EncItems(a) ==
  IF a = <<>> THEN <<>>
  ELSE to_vec(Head(a)) \o (IF Len(a) > 1 THEN <<P(",")>> \o EncItems(Tail(a)) ELSE <<>>)

\* members of an object for the keys ks (a sequence), separated by commas
EncMembers(m, ks) ==
  IF ks = <<>> THEN <<>>
  ELSE <<TStr(Head(ks)), P(":")>> \o to_vec(m[Head(ks)])
       \o (IF Len(ks) > 1 THEN <<P(",")>> \o EncMembers(m, Tail(ks)) ELSE <<>>)

\* the keys of m as a subsequence of KeyOrder
PresentKeys(m) == SelectSeq(KeyOrder, LAMBDA k : k \in DOMAIN m)

\* serde_json::to_vec of a Value: the body a server sends for a JSON value
to_vec(j) ==
  CASE j.t = "null" -> <<TNull>>
    [] j.t = "num" -> <<TNum(j.n)>>
    [] j.t = "str" -> <<TStr(j.s)>>
    [] j.t = "arr" -> <<P("[")>> \o EncItems(j.a) \o <<P("]")>>
    [] j.t = "obj" -> <<P("{")>> \o EncMembers(j.m, PresentKeys(j.m)) \o <<P("}")>>

ParseFail == [ok |-> FALSE]
ParseOk(v, i) == [ok |-> TRUE, v |-> v, i |-> i]

RECURSIVE ParseValue(_, _)
RECURSIVE ParseItems(_, _, _)
RECURSIVE ParseMembers(_, _, _)

\* one JSON value starting at lexeme i; yields the value and the next index
ParseValue(toks, i) ==
  IF i > Len(toks) THEN ParseFail
  ELSE LET tok == toks[i] IN
    CASE tok.k = "null" -> ParseOk(JNull, i + 1)
      [] tok.k = "num" -> ParseOk(JNum(tok.n), i + 1)
      [] tok.k = "str" -> ParseOk(JStr(tok.s), i + 1)
      [] tok = P("[") ->
           IF i + 1 <= Len(toks) /\ toks[i + 1] = P("]")
           THEN ParseOk(JArr(<<>>), i + 2)
           ELSE ParseItems(toks, i + 1, <<>>)
      [] tok = P("{") ->
           IF i + 1 <= Len(toks) /\ toks[i + 1] = P("}")
           THEN ParseOk(JObj(EmptyMap), i + 2)
           ELSE ParseMembers(toks, i + 1, EmptyMap)
      [] OTHER -> ParseFail

\* value (, value)* ]
ParseItems(toks, i, acc) ==
  LET r == ParseValue(toks, i) IN
  IF ~r.ok THEN ParseFail
  ELSE IF r.i > Len(toks) THEN ParseFail
  ELSE IF toks[r.i] = P(",") THEN ParseItems(toks, r.i + 1, Append(acc, r.v))
  ELSE IF toks[r.i] = P("]") THEN ParseOk(JArr(Append(acc, r.v)), r.i + 1)
  ELSE ParseFail

\* "key" : value (, "key" : value)* }   a repeated key keeps the last value
ParseMembers(toks, i, m) ==
  IF i + 1 > Len(toks) THEN ParseFail
  ELSE IF toks[i].k # "str" \/ toks[i + 1] # P(":") THEN ParseFail
  ELSE LET key == toks[i].s
           r == ParseValue(toks, i + 2)
           m2 == [k \in (DOMAIN m) \cup {key} |-> IF k = key THEN r.v ELSE m[k]]
       IN IF ~r.ok THEN ParseFail
          ELSE IF r.i > Len(toks) THEN ParseFail
          ELSE IF toks[r.i] = P(",") THEN ParseMembers(toks, r.i + 1, m2)
          ELSE IF toks[r.i] = P("}") THEN ParseOk(JObj(m2), r.i + 1)
          ELSE ParseFail

\* serde_json::from_slice::<Value>: exactly one value, nothing after it
from_slice(toks) ==
  LET r == ParseValue(toks, 1) IN
  IF r.ok /\ r.i = Len(toks) + 1 THEN [ok |-> TRUE, v |-> r.v] ELSE ParseFail


(***************************************************************************)
(* Rust types that responses are decoded into, and their values.           *)
(* name is std::any::type_name as a sequence of path components.           *)
(***************************************************************************)
TUnit == [k |-> "unit", name |-> <<"()">>]
TString == [k |-> "string", name |-> <<"alloc::string::String">>]
TU64 == [k |-> "u64", name |-> <<"u64">>]
TUrl == [k |-> "url", name |-> <<"url::Url">>]
TValue == [k |-> "value", name |-> <<"serde_json::value::Value">>]
TOption(ty) == [k |-> "option", name |-> <<"core::option::Option">> \o ty.name, of |-> ty]
TVec(ty) == [k |-> "vec", name |-> <<"alloc::vec::Vec">> \o ty.name, of |-> ty]
TNewtype(n, ty) == [k |-> "newtype", name |-> <<n>>, of |-> ty]
TStruct(n, fields) == [k |-> "struct", name |-> <<n>>, fields |-> fields]
Field(f, key, ty) == [f |-> f, key |-> key, ty |-> ty]

\* impl_wrapper!(AccessToken ..), impl_wrapper!(UserId ..): pub struct $name(String)
AccessTokenId == TNewtype("traduora::api::common::AccessToken", TString)
UserId == TNewtype("traduora::api::common::UserId", TString)

\* the model of Token: no rename, the fields keep their snake_case names
AccessToken ==
  TStruct("traduora::api::auth::token::AccessToken",
          << Field("access_token", "access_token", AccessTokenId),
             Field("expires_in", "expires_in", TString),
             Field("token_type", "token_type", TString) >>)

\* the model of Me: #[serde(rename_all = "camelCase")]
UserInfo ==
  TStruct("traduora::api::users::me::UserInfo",
          << Field("id", "id", UserId),
             Field("name", "name", TString),
             Field("email", "email", TString),
             Field("num_projects_created", "numProjectsCreated", TOption(TU64)) >>)

\* the model of Signup: #[serde(rename_all = "camelCase")]
NewUser ==
  TStruct("traduora::api::auth::signup::NewUser",
          << Field("id", "id", UserId),
             Field("name", "name", TString),
             Field("email", "email", TString),
             Field("access_token", "accessToken", AccessTokenId) >>)

\* an element of the model of Providers: #[serde(rename_all = "camelCase")]
AuthProvider ==
  TStruct("traduora::api::auth::providers::AuthProvider",
          << Field("slug", "slug", TString),
             Field("client_id", "clientId", TString),
             Field("url", "url", TUrl),
             Field("redirect_url", "redirectUrl", TUrl) >>)

\* struct Container<T> { data: T } inside DefaultModel::map
Container(ty) ==
  [k |-> "struct", name |-> <<"traduora::query::DefaultModel::map::Container">> \o ty.name,
   fields |-> << Field("data", "data", ty) >>]

\* the caller's wrapper of the CustomQuery documentation: struct UserDataInfo { data: .. }
UserDataInfo(ty) ==
  [k |-> "struct", name |-> <<"UserDataInfo">> \o ty.name,
   fields |-> << Field("data", "data", ty) >>]

RUnit == [r |-> "unit"]
RStr(s) == [r |-> "str", s |-> s]
RNum(n) == [r |-> "u64", n |-> n]
RNone == [r |-> "none"]
RSome(v) == [r |-> "some", x |-> v]
RUrl(s) == [r |-> "url", s |-> s]
RVec(a) == [r |-> "vec", a |-> a]
RNew(n, v) == [r |-> "new", name |-> n, x |-> v]
RStruct(n, f) == [r |-> "struct", name |-> n, f |-> f]
RValue(j) == [r |-> "value", j |-> j]

\* strings that occur as field values
Strs == {"a", "b"}
\* a URL in its normal form, and a spelling that Url::parse normalises to it
NormUrl == "https://a.example/"
UpperUrl == "HTTPS://A.EXAMPLE"

DeFail == [ok |-> FALSE]
DeOk(v) == [ok |-> TRUE, v |-> v]

\* Url::parse behind <Url as Deserialize>: a string that is a URL, normalised
url_parse(s) ==
  IF s \in {NormUrl, UpperUrl} THEN DeOk(RUrl(NormUrl)) ELSE DeFail

FieldNames(ty) == {ty.fields[i].f : i \in 1..Len(ty.fields)}
FieldOf(ty, f) == ty.fields[CHOOSE i \in 1..Len(ty.fields) : ty.fields[i].f = f]
FieldIndex(ty, f) == CHOOSE i \in 1..Len(ty.fields) : ty.fields[i].f = f

RECURSIVE from_value(_, _)

\* serde's missing_field: an absent key is None for an Option, an error otherwise
missing_field(ty) == IF ty.k = "option" THEN DeOk(RNone) ELSE DeFail

\* serde_json::from_value::<T>(j) for the type description ty
from_value(ty, j) ==
  CASE ty.k = "unit" -> IF j = JNull THEN DeOk(RUnit) ELSE DeFail
    [] ty.k = "string" -> IF j.t = "str" THEN DeOk(RStr(j.s)) ELSE DeFail
    [] ty.k = "u64" -> IF j.t = "num" /\ j.n >= 0 THEN DeOk(RNum(j.n)) ELSE DeFail
    [] ty.k = "url" -> IF j.t = "str" THEN url_parse(j.s) ELSE DeFail
    [] ty.k = "value" -> DeOk(RValue(j))
    [] ty.k = "option" ->
         IF j = JNull THEN DeOk(RNone)
         ELSE LET r == from_value(ty.of, j) IN IF r.ok THEN DeOk(RSome(r.v)) ELSE DeFail
    [] ty.k = "newtype" ->
         LET r == from_value(ty.of, j) IN IF r.ok THEN DeOk(RNew(ty.name, r.v)) ELSE DeFail
    [] ty.k = "vec" ->
         IF j.t # "arr" THEN DeFail
         ELSE LET rs == [i \in 1..Len(j.a) |-> from_value(ty.of, j.a[i])] IN
              IF \A i \in 1..Len(j.a) : rs[i].ok
              THEN DeOk(RVec([i \in 1..Len(j.a) |-> rs[i].v]))
              ELSE DeFail
    [] ty.k = "struct" ->
         IF j.t = "obj" THEN
           \* visit_map: unknown keys are ignored, absent keys go to missing_field
           LET rs == [f \in FieldNames(ty) |->
                        LET fd == FieldOf(ty, f) IN
                        IF fd.key \in DOMAIN j.m THEN from_value(fd.ty, j.m[fd.key])
                        ELSE missing_field(fd.ty)] IN
           IF \A f \in FieldNames(ty) : rs[f].ok
           THEN DeOk(RStruct(ty.name, [f \in FieldNames(ty) |-> rs[f].v]))
           ELSE DeFail
         ELSE IF j.t = "arr" THEN
           \* visit_seq: the fields in declaration order, no element missing or left over
           IF Len(j.a) # Len(ty.fields) THEN DeFail
           ELSE LET rs == [f \in FieldNames(ty) |->
                             from_value(FieldOf(ty, f).ty, j.a[FieldIndex(ty, f)])] IN
                IF \A f \in FieldNames(ty) : rs[f].ok
                THEN DeOk(RStruct(ty.name, [f \in FieldNames(ty) |-> rs[f].v]))
                ELSE DeFail
         ELSE DeFail

RECURSIVE to_value(_, _)

\* the JSON a server sends for the model value v of type ty
to_value(ty, v) ==
  CASE ty.k = "unit" -> JNull
    [] ty.k = "string" -> JStr(v.s)
    [] ty.k = "u64" -> JNum(v.n)
    [] ty.k = "url" -> JStr(v.s)
    [] ty.k = "value" -> v.j
    [] ty.k = "option" -> IF v = RNone THEN JNull ELSE to_value(ty.of, v.x)
    [] ty.k = "newtype" -> to_value(ty.of, v.x)
    [] ty.k = "vec" -> JArr([i \in 1..Len(v.a) |-> to_value(ty.of, v.a[i])])
    [] ty.k = "struct" ->
         JObj([key \in {ty.fields[i].key : i \in 1..Len(ty.fields)} |->
                 LET fd == ty.fields[CHOOSE i \in 1..Len(ty.fields) : ty.fields[i].key = key]
                 IN to_value(fd.ty, v.f[fd.f])])

RECURSIVE ModelVals(_)

\* the values of a type within the bounds
ModelVals(ty) ==
  CASE ty.k = "unit" -> {RUnit}
    [] ty.k = "string" -> {RStr(s) : s \in Strs}
    [] ty.k = "u64" -> {RNum(n) : n \in 0..MaxNum}
    [] ty.k = "url" -> {RUrl(NormUrl)}
    [] ty.k = "option" -> {RNone} \cup {RSome(v) : v \in ModelVals(ty.of)}
    [] ty.k = "newtype" -> {RNew(ty.name, v) : v \in ModelVals(ty.of)}
    [] ty.k = "vec" ->
         UNION {{RVec(a) : a \in [1..n -> ModelVals(ty.of)]} : n \in 0..MaxVec}
    [] ty.k = "struct" ->
         LET all == UNION {ModelVals(ty.fields[i].ty) : i \in 1..Len(ty.fields)} IN
         {RStruct(ty.name, f) : f \in
            {g \in [FieldNames(ty) -> all] :
               \A n \in FieldNames(ty) : g[n] \in ModelVals(FieldOf(ty, n).ty)}}

(***************************************************************************)
(* Scopes (auth.rs) and clients (traduora.rs).                             *)
(***************************************************************************)
Unauthenticated == [lvl |-> "Unauthenticated"]
Authenticated(t) == [lvl |-> "Authenticated", tok |-> t]

\* a token that is a legal header value, and one that holds a line break
GoodToken == "eyJhbGciOi"
BadToken == "bad\ntoken"
Tokens == {GoodToken, BadToken}

\* a conversion that also upgrades Unauthenticated to Authenticated
FromScopeBothWays(a, b) ==
  \/ a = b
  \/ a = "Authenticated" /\ b = "Unauthenticated"
  \/ a = "Unauthenticated" /\ b = "Authenticated"

\* `impl From<a> for b`: core's reflexive impl and the downgrade of auth.rs
FromScope(a, b) ==
  \/ a = b
  \/ a = "Authenticated" /\ b = "Unauthenticated"

Host == "localhost:8080"

\* Builder::build_rest_url: {protocol}://{host}/api/v1/ (the last segment is empty)
build_rest_url(protocol, host) ==
  [scheme |-> protocol, host |-> host, segs |-> <<"api", "v1", "">>]

\* Builder::new and the setters of the builder
BuilderNew(host) ==
  [host |-> host, protocol |-> "https", validate_certs |-> TRUE, login |-> [none |-> TRUE]]
use_http(b, v) == [b EXCEPT !.protocol = IF v THEN "http" ELSE "https"]
validate_certs(b, v) == [b EXCEPT !.validate_certs = v]
authenticate(b, login) == [b EXCEPT !.login = [login |-> login]]
with_access_token(b, t) == [b EXCEPT !.login = [access_token |-> t]]

\* Builder::build_unauthenticated / build_unauthenticated_async of a builder:
\* the transport handle, the API root, no credential
build_unauthenticated_from(b, kind) ==
  [kind |-> kind,
   client |-> [danger_accept_invalid_certs |-> ~b.validate_certs],
   rest_url |-> build_rest_url(b.protocol, b.host),
   token |-> Unauthenticated]

\* a build from an access token that keeps a cleaned copy of the token
build_access_token_cleaned_from(b, kind) ==
  [build_unauthenticated_from(b, kind) EXCEPT
     !.token = Authenticated(IF b.login.access_token = BadToken THEN GoodToken
                             ELSE b.login.access_token)]

\* Builder<AccessToken>::build / build_async: handle and url of the
\* unauthenticated client, the token as it was given
build_access_token_from(b, kind) ==
  [build_unauthenticated_from(b, kind) EXCEPT !.token = Authenticated(b.login.access_token)]

\* Traduora::new(Host) / AsyncTraduora::new(Host)
build_unauthenticated(kind) == build_unauthenticated_from(BuilderNew(Host), kind)

\* Builder::new(Host).with_access_token(t).build() / build_async()
build_with_access_token(kind, t) ==
  build_access_token_from(with_access_token(BuilderNew(Host), t), kind)

ClientKinds == {"Traduora", "AsyncTraduora"}

\* every client value a constructor that needs no exchange can return
Clients ==
  {build_unauthenticated(k) : k \in ClientKinds}
    \cup {build_with_access_token(k, t) : k \in ClientKinds, t \in Tokens}

\* RestClient::AccessLevel of the client type
AccessLevel(c) ==
  IF c.kind = "Traduora" THEN c.token.lvl ELSE "Authenticated"

\* the query methods the client type offers: Client (blocking) or AsyncClient
Styles(c) ==
  IF c.kind = "Traduora" THEN {"query", "query_custom"}
  ELSE {"query_async", "query_custom_async"}

RECURSIVE Dots(_, _)

\* the path parser of the url crate on the segments rest, with the segments
\* acc already written: `.` is dropped and `..` also takes the segment
\* before it away (none at the root); either leaves an empty segment behind
\* when it is the last one
Dots(acc, rest) ==
  IF rest = <<>> THEN acc
  ELSE LET sg == Head(rest)
           slash == IF Len(rest) = 1 THEN <<"">> ELSE <<>>
       IN IF sg = ".."
          THEN Dots((IF acc = <<>> THEN acc ELSE SubSeq(acc, 1, Len(acc) - 1)) \o slash,
                    Tail(rest))
          ELSE IF sg = "." THEN Dots(acc \o slash, Tail(rest))
          ELSE Dots(Append(acc, sg), Tail(rest))

\* Url::join of the API root with a reference given as the pieces between
\* its slashes: "a/b" is <<"a", "b">>, "/a" is <<"", "a">>, "//h/a" is
\* <<"", "", "h", "a">>.  A reference that starts with // names a new host,
\* and an empty host is ParseError::EmptyHost for http(s); one that starts
\* with / replaces the path; any other replaces the last segment of the base.
\* The path is written by the path parser, which resolves `.` and `..`.
url_join(base, rel) ==
  IF Len(rel) >= 3 /\ rel[1] = "" /\ rel[2] = ""
  THEN IF rel[3] = "" THEN [ok |-> FALSE, err |-> "EmptyHost"]
       ELSE [ok |-> TRUE,
             v |-> [base EXCEPT !.host = rel[3],
                                !.segs = IF Len(rel) = 3 THEN <<"">>
                                         ELSE Dots(<<>>, SubSeq(rel, 4, Len(rel)))]]
  ELSE IF Len(rel) >= 2 /\ rel[1] = ""
  THEN [ok |-> TRUE, v |-> [base EXCEPT !.segs = Dots(<<>>, Tail(rel))]]
  ELSE [ok |-> TRUE,
        v |-> [base EXCEPT !.segs =
                 Dots(<<>>, SubSeq(base.segs, 1, Len(base.segs) - 1) \o rel)]]

\* RestClient::rest_endpoint
rest_endpoint(c, endpoint) == url_join(c.rest_url, endpoint)

(***************************************************************************)
(* Endpoint descriptors (api/..): method, path, body, scope, model, map.   *)
(***************************************************************************)
JSON == "application/json"
None == <<>>
Some(v) == <<v>>

\* the Result of Endpoint::body: Ok(None), Ok(Some((mime, data))) or a BodyError
BodyOk(b) == [ok |-> TRUE, v |-> b]
BodyErr == [ok |-> FALSE, err |-> "SerdeJson"]

\* Token without its own map: the trait's enveloped mapping applies
TokenEnveloped ==
  [name |-> "Token", method |-> "POST", endpoint |-> <<"auth", "token">>,
   access |-> "Unauthenticated",
   body |-> BodyOk(Some([mime |-> JSON,
                  data |-> to_vec(JObj([k \in {"grant_type", "username", "password"} |->
                             IF k = "grant_type" THEN JStr("password")
                             ELSE IF k = "username" THEN JStr("a") ELSE JStr("b")]))])),
   map |-> "default", model |-> AccessToken]

\* Token::password("a", "b"), serialised with tag grant_type
Token ==
  [name |-> "Token", method |-> "POST", endpoint |-> <<"auth", "token">>,
   access |-> "Unauthenticated",
   body |-> BodyOk(Some([mime |-> JSON,
                  data |-> to_vec(JObj([k \in {"grant_type", "username", "password"} |->
                             IF k = "grant_type" THEN JStr("password")
                             ELSE IF k = "username" THEN JStr("a") ELSE JStr("b")]))])),
   map |-> "from_value", model |-> AccessToken]

Providers ==
  [name |-> "Providers", method |-> "GET", endpoint |-> <<"auth", "providers">>,
   access |-> "Unauthenticated", body |-> BodyOk(None),
   map |-> "from_value", model |-> TVec(AuthProvider)]

\* Signup::new("a", "a", "b")
Signup ==
  [name |-> "Signup", method |-> "POST", endpoint |-> <<"auth", "signup">>,
   access |-> "Unauthenticated",
   body |-> BodyOk(Some([mime |-> JSON,
                  data |-> to_vec(JObj([k \in {"name", "email", "password"} |->
                             IF k = "password" THEN JStr("b") ELSE JStr("a")]))])),
   map |-> "default", model |-> NewUser]

Me ==
  [name |-> "Me", method |-> "GET", endpoint |-> <<"users", "me">>,
   access |-> "Authenticated", body |-> BodyOk(None),
   map |-> "default", model |-> UserInfo]

DeleteMe ==
  [name |-> "DeleteMe", method |-> "DELETE", endpoint |-> <<"users", "me">>,
   access |-> "Authenticated", body |-> BodyOk(None),
   map |-> "from_value", model |-> TUnit]

\* an Endpoint a caller of the crate implements: GET, no credential, the
\* path and the Result of body() as the caller wrote them
UserEndpoint(path, body) ==
  [name |-> "User", method |-> "GET", endpoint |-> path,
   access |-> "Unauthenticated", body |-> body,
   map |-> "from_value", model |-> TUnit]

\* a content type with a line break in it
BadMime == "text/plain\n"

\* the paths "dummy" and "//", and a body() that gives no body, fails, or
\* gives an empty body under BadMime
UserPaths == {<<"dummy">>, <<"", "", "">>}
UserBodies == {BodyOk(None), BodyErr, BodyOk(Some([mime |-> BadMime, data |-> <<>>]))}
UserEndpoints == {UserEndpoint(p, b) : p \in UserPaths, b \in UserBodies}

\* a project id of ordinary length, and one that stands for a string of
\* 65,535 letters; IdLen is the length in bytes of an id
ShortId == "p1"
LongId == "a{65535}"
ProjectIds == {ShortId, LongId}
IdLen(s) == IF s = LongId THEN 65535 ELSE Len(s)

\* ids that hold slashes or dot segments, and the pieces between the
\* slashes of an id as it is written into a path by format!("{}", id)
CraftedIds == {"..", "../..", "../../x", "/etc", "a/b", "."}
Split(id) ==
  CASE id = "../.." -> <<"..", "..">>
    [] id = "../../x" -> <<"..", "..", "x">>
    [] id = "/etc" -> <<"", "etc">>
    [] id = "a/b" -> <<"a", "b">>
    [] OTHER -> <<id>>

\* DeleteProject(id): DELETE projects/{id}
DeleteProject(id) ==
  [name |-> "DeleteProject", method |-> "DELETE",
   endpoint |-> <<"projects">> \o Split(id),
   access |-> "Authenticated", body |-> BodyOk(None),
   map |-> "from_value", model |-> TUnit]

\* a DeleteTerm that keeps the enveloped mapping of the trait
DeleteTermEnveloped(project_id, term_id) ==
  [name |-> "DeleteTerm", method |-> "DELETE",
   endpoint |-> <<"projects">> \o Split(project_id) \o <<"terms">> \o Split(term_id),
   access |-> "Authenticated", body |-> BodyOk(None),
   map |-> "default", model |-> TUnit]

\* DeleteTerm::new(project_id, term_id): DELETE projects/{}/terms/{}
DeleteTerm(project_id, term_id) ==
  [name |-> "DeleteTerm", method |-> "DELETE",
   endpoint |-> <<"projects">> \o Split(project_id) \o <<"terms">> \o Split(term_id),
   access |-> "Authenticated", body |-> BodyOk(None),
   map |-> "from_value", model |-> TUnit]

\* DeleteLocale::new(project_id, locale): DELETE projects/{}/translations/{}
DeleteLocale(project_id, locale) ==
  [name |-> "DeleteLocale", method |-> "DELETE",
   endpoint |-> <<"projects">> \o Split(project_id) \o <<"translations">> \o Split(locale),
   access |-> "Authenticated", body |-> BodyOk(None),
   map |-> "from_value", model |-> TUnit]

\* ChangePassword::new(old, new): POST auth/change-password with the
\* passwords as camelCase JSON
ChangePassword(old, new) ==
  [name |-> "ChangePassword", method |-> "POST",
   endpoint |-> <<"auth", "change-password">>,
   access |-> "Authenticated",
   body |-> BodyOk(Some([mime |-> JSON,
                  data |-> <<P("{")>>
                             \o EncMembers(Obj2("oldPassword", JStr(old),
                                                "newPassword", JStr(new)).m,
                                           <<"oldPassword", "newPassword">>)
                             \o <<P("}")>>])),
   map |-> "from_value", model |-> TUnit]

\* the operations whose model is ()
UnitEndpoints ==
  {DeleteMe, DeleteTerm(ShortId, "t1"), DeleteLocale(ShortId, "de_DE"),
   ChangePassword("a", "b")}
    \cup {DeleteProject(id) : id \in ProjectIds}

Endpoints ==
  {Token, Providers, Signup, Me} \cup UnitEndpoints \cup UserEndpoints

\* the types a caller names for a custom query
CustomTypes == {UserInfo, UserDataInfo(UserInfo), TValue}

\* the bound `E::AccessControl: From<C::AccessLevel>` of every query impl
ScopeBound(e, c) == FromScope(AccessLevel(c), e.access)

(***************************************************************************)
(* Mapping functions (query.rs, endpoint.rs).                              *)
(***************************************************************************)
\* a default mapping that decodes the model from the whole body
DefaultMapNoUnwrap(model, v) == from_value(model, v)

\* DefaultModel::map as written in the trait: unwrap Container<Model>.data
DefaultMap(model, v) ==
  LET c == from_value(Container(model), v) IN
  IF c.ok THEN DeOk(c.v.f.data) ELSE DeFail

\* the mapper a query hands to process_response, applied to a parsed body
ApplyMapper(mapper, v) ==
  IF mapper.f = "default" THEN DefaultMap(mapper.ty, v)
  ELSE from_value(mapper.ty, v)

\* custom queries that unwrap the envelope like the default mapping
MapperOfEnveloping(e, style, target) ==
  IF style \in {"query", "query_async"}
  THEN [f |-> e.map, ty |-> e.model]
  ELSE [f |-> "default", ty |-> target]

\* DefaultQuery uses E::map (the trait's or the endpoint's override);
\* `impl CustomQuery for E` uses serde_json::from_value::<T>
MapperOf(e, style, target) ==
  IF style \in {"query", "query_async"}
  THEN [f |-> e.map, ty |-> e.model]
  ELSE [f |-> "from_value", ty |-> target]

(***************************************************************************)
(* ApiError (error.rs) and process_response (endpoint.rs).                 *)
(***************************************************************************)
Ok(v) == [ok |-> TRUE, v |-> v]
ErrClient(src) == [ok |-> FALSE, err |-> "Client", source |-> src]
ErrUrlParse(src) == [ok |-> FALSE, err |-> "UrlParse", source |-> src]
ErrBody(src) == [ok |-> FALSE, err |-> "Body", source |-> src]
ErrJson == [ok |-> FALSE, err |-> "Json"]
ErrTraduora(msg) == [ok |-> FALSE, err |-> "Traduora", msg |-> msg]
ErrTraduoraService(status, data) ==
  [ok |-> FALSE, err |-> "TraduoraService", status |-> status, data |-> data]
ErrTraduoraObject(obj) == [ok |-> FALSE, err |-> "TraduoraObject", obj |-> obj]
ErrTraduoraUnrecognized(obj) == [ok |-> FALSE, err |-> "TraduoraUnrecognized", obj |-> obj]
ErrDataType(typename) == [ok |-> FALSE, err |-> "DataType", typename |-> typename]

\* ApiError::server_error
server_error(status, body) == ErrTraduoraService(status, body)

\* a DataType error that names the envelope instead of the model
data_type_container(ty) == ErrDataType(Container(ty).name)

\* ApiError::data_type::<T>: typename is any::type_name::<T>()
data_type(ty) == ErrDataType(ty.name)

\* Value::pointer("/key"): a member of an object, nothing for any other value
pointer(v, key) ==
  IF v.t = "obj" /\ key \in DOMAIN v.m THEN Some(v.m[key]) ELSE None

\* a lookup that prefers /error over /message
from_traduora_error_first(value) ==
  LET m == pointer(value, "error")
      error_value == IF m # None THEN m ELSE pointer(value, "message")
  IN IF error_value # None
     THEN IF error_value[1].t = "str"
          THEN ErrTraduora(error_value[1].s)
          ELSE ErrTraduoraObject(error_value[1])
     ELSE ErrTraduoraUnrecognized(value)

\* a classification that hands the whole body to TraduoraObject
from_traduora_whole_object(value) ==
  LET m == pointer(value, "message")
      error_value == IF m # None THEN m ELSE pointer(value, "error")
  IN IF error_value # None
     THEN IF error_value[1].t = "str"
          THEN ErrTraduora(error_value[1].s)
          ELSE ErrTraduoraObject(value)
     ELSE ErrTraduoraUnrecognized(value)

\* a classification that takes a body that is a bare JSON string as the message
from_traduora_bare_string(value) ==
  LET m == pointer(value, "message")
      error_value == IF m # None THEN m ELSE pointer(value, "error")
  IN IF error_value # None
     THEN IF error_value[1].t = "str"
          THEN ErrTraduora(error_value[1].s)
          ELSE ErrTraduoraObject(error_value[1])
     ELSE IF value.t = "str" THEN ErrTraduora(value.s)
     ELSE ErrTraduoraUnrecognized(value)

\* ApiError::from_traduora
from_traduora(value) ==
  LET m == pointer(value, "message")
      error_value == IF m # None THEN m ELSE pointer(value, "error")
  IN IF error_value # None
     THEN IF error_value[1].t = "str"
          THEN ErrTraduora(error_value[1].s)
          ELSE ErrTraduoraObject(error_value[1])
     ELSE ErrTraduoraUnrecognized(value)

\* a success test that lets redirections (3xx) through
is_success_lenient(status) == 200 <= status /\ status < 400

\* StatusCode::is_success
is_success(status) == 200 <= status /\ status < 300

\* an empty body handed to the parser as it is
FilledBodyRaw(r) == r.body

\* the bytes process_response parses: `null` in place of an empty body
FilledBody(r) == IF r.body = <<>> THEN <<TNull>> ELSE r.body

\* a pipeline that maps null when a success body is no JSON
process_response_lossy(r, mapper) ==
  LET result_v == from_slice(FilledBody(r))
  IN IF is_success(r.status)
     THEN LET m == ApplyMapper(mapper, IF result_v.ok THEN result_v.v ELSE JNull) IN
          [res |-> IF m.ok THEN Ok(m.v) ELSE data_type(mapper.ty),
           mapped |-> TRUE, classified |-> FALSE]
     ELSE IF ~result_v.ok
          THEN [res |-> server_error(r.status, r.body),
                mapped |-> FALSE, classified |-> FALSE]
          ELSE [res |-> from_traduora(result_v.v),
                mapped |-> FALSE, classified |-> TRUE]

\* a pipeline that reports only 5xx as a service error and any unparsable
\* body as a Json error
process_response_json_first(r, mapper) ==
  LET result_v == from_slice(FilledBody(r))
  IN IF r.status >= 500
     THEN [res |-> server_error(r.status, r.body), mapped |-> FALSE, classified |-> FALSE]
     ELSE IF ~result_v.ok
     THEN [res |-> ErrJson, mapped |-> FALSE, classified |-> FALSE]
     ELSE IF ~is_success(r.status)
     THEN [res |-> from_traduora(result_v.v), mapped |-> FALSE, classified |-> TRUE]
     ELSE LET m == ApplyMapper(mapper, result_v.v) IN
          [res |-> IF m.ok THEN Ok(m.v) ELSE data_type(mapper.ty),
           mapped |-> TRUE, classified |-> FALSE]

\* process_response(r, mapper): res is the returned Result; mapped and
\* classified record whether mapper / from_traduora were called
process_response(r, mapper) ==
  LET result_v == from_slice(FilledBody(r))
  IN IF is_success(r.status)
     THEN IF ~result_v.ok
          THEN [res |-> ErrJson, mapped |-> FALSE, classified |-> FALSE]
          ELSE LET m == ApplyMapper(mapper, result_v.v) IN
               [res |-> IF m.ok THEN Ok(m.v) ELSE data_type(mapper.ty),
                mapped |-> TRUE, classified |-> FALSE]
     ELSE IF ~result_v.ok
          THEN [res |-> server_error(r.status, r.body),
                mapped |-> FALSE, classified |-> FALSE]
          ELSE [res |-> from_traduora(result_v.v),
                mapped |-> FALSE, classified |-> TRUE]

\* HeaderValue::from_str / try_from(&str) fails on a control character
ValidHeaderValue(t) == t \notin {BadToken, BadMime}

\* http::Uri's MAX_LEN (u16::MAX - 1)
MAX_LEN == 65534

RECURSIVE PathLen(_)
\* the bytes of a path: a slash before every segment
PathLen(segs) ==
  IF segs = <<>> THEN 0 ELSE 1 + IdLen(Head(segs)) + PathLen(Tail(segs))

\* Url::as_str: scheme://host/path
UrlLen(u) == Len(u.scheme) + 3 + Len(u.host) + PathLen(u.segs)

\* str::parse::<http::Uri> of a url::Url: fails (TooLong) above MAX_LEN bytes
uri_parse(u) == IF UrlLen(u) > MAX_LEN THEN [ok |-> FALSE] ELSE [ok |-> TRUE, v |-> u]

BuildOk(req, data) == [ok |-> TRUE, panic |-> FALSE, req |-> req, data |-> data]
BuildErr(e) == [ok |-> FALSE, panic |-> FALSE, err |-> e]
BuildPanic(msg) == [ok |-> FALSE, panic |-> TRUE, msg |-> msg]

\* request::Builder::header(CONTENT_TYPE, mime): a value that is no header
\* value leaves the builder in its error state
header_content_type(req, mime) ==
  IF ValidHeaderValue(mime)
  THEN [req EXCEPT !.headers.content_type = Some(mime)]
  ELSE [req EXCEPT !.inner_ok = FALSE]

\* a request builder that asks for the body before it joins the url
build_request_with_body_body_first(e, c) ==
  LET uri == rest_endpoint(c, e.endpoint) IN
  IF ~e.body.ok THEN BuildErr(ErrBody(e.body.err))
  ELSE IF ~uri.ok THEN BuildErr(ErrUrlParse(uri.err))
  ELSE IF ~uri_parse(uri.v).ok
  THEN BuildPanic("failed to parse a url::Url as an http::Uri")
  ELSE LET req == [method |-> e.method, uri |-> uri_parse(uri.v).v, inner_ok |-> TRUE,
                   headers |-> [content_type |-> None, authorization |-> None]]
       IN IF e.body.v # None
          THEN BuildOk(header_content_type(req, e.body.v[1].mime), e.body.v[1].data)
          ELSE BuildOk(req, <<>>)

\* build_request_with_body: the url is joined first (UrlParse on failure) and
\* parsed as an http::Uri (expect: a panic on failure), then body() is asked
\* (Body on failure); the builder gets the method, the uri and the content
\* type, and is returned with the payload
build_request_with_body(e, c) ==
  LET uri == rest_endpoint(c, e.endpoint) IN
  IF ~uri.ok THEN BuildErr(ErrUrlParse(uri.err))
  ELSE IF ~uri_parse(uri.v).ok
  THEN BuildPanic("failed to parse a url::Url as an http::Uri")
  ELSE IF ~e.body.ok THEN BuildErr(ErrBody(e.body.err))
  ELSE LET req == [method |-> e.method, uri |-> uri_parse(uri.v).v, inner_ok |-> TRUE,
                   headers |-> [content_type |-> None, authorization |-> None]]
       IN IF e.body.v # None
          THEN BuildOk(header_content_type(req, e.body.v[1].mime), e.body.v[1].data)
          ELSE BuildOk(req, <<>>)

\* a set_header that adds its value to the Authorization values already there
set_header_append(scope, headers) ==
  IF scope.lvl = "Authenticated"
  THEN IF ValidHeaderValue(scope.tok)
       THEN [ok |-> TRUE,
             headers |-> [headers EXCEPT !.authorization =
                            Append(@, [value |-> <<"Bearer ", scope.tok>>,
                                       sensitive |-> TRUE])]]
       ELSE [ok |-> FALSE, headers |-> headers]
  ELSE [ok |-> TRUE, headers |-> headers]

\* Scope::set_header on a header map (every name with the sequence of its
\* values): Authenticated inserts Authorization: Bearer <token>, marked
\* sensitive, in place of the values the name had, and fails before the
\* insert when the value is no header value; Unauthenticated does nothing.
\* headers is the map as the call leaves it.
set_header(scope, headers) ==
  IF scope.lvl = "Authenticated"
  THEN IF ValidHeaderValue(scope.tok)
       THEN [ok |-> TRUE,
             headers |-> [headers EXCEPT !.authorization =
                            Some([value |-> <<"Bearer ", scope.tok>>, sensitive |-> TRUE])]]
       ELSE [ok |-> FALSE, headers |-> headers]
  ELSE [ok |-> TRUE, headers |-> headers]

\* what the exchange with the server gives: a response or a reqwest::Error
ExchangeOk(r) == [ok |-> TRUE, v |-> r]

\* A HeaderMap of a response: a function from the names that occur to the
\* sequence of their values, in the order of arrival.
EmptyHeaderMap == [n \in {} |-> <<>>]

\* HeaderMap::insert: the value takes the place of all values of the name
header_insert(m, name, value) ==
  [n \in DOMAIN m \cup {name} |-> IF n = name THEN <<value>> ELSE m[n]]

RECURSIVE Entries(_, _)
RECURSIVE InsertAll(_, _)

\* the (key, value) pairs that iterating a HeaderMap yields for the names S:
\* one pair for each value
Entries(h, S) ==
  IF S = {} THEN <<>>
  ELSE LET n == CHOOSE x \in S : TRUE IN
       [i \in 1..Len(h[n]) |-> [name |-> n, value |-> h[n][i]]] \o Entries(h, S \ {n})

\* for (key, value) in .. { headers.insert(key, value.clone()) }
InsertAll(m, es) ==
  IF es = <<>> THEN m
  ELSE InsertAll(header_insert(m, Head(es).name, Head(es).value), Tail(es))

\* the http::Response that rest / rest_async build from the response of
\* the server: status, the headers copied pair by pair, the bytes of the body
http_response(r) ==
  [status |-> r.status,
   headers |-> InsertAll(EmptyHeaderMap, Entries(r.headers, DOMAIN r.headers)),
   body |-> r.body]
ExchangeFails == [ok |-> FALSE, err |-> "Communication"]

\* exchanges: how often self.client.execute was called (0 or 1)
RestOk(sent, r) ==
  [ok |-> TRUE, panic |-> FALSE, sent |-> sent, rsp |-> r, exchanges |-> 1]
RestErr(e, n) == [ok |-> FALSE, panic |-> FALSE, err |-> e, exchanges |-> n]
RestPanic(msg) == [ok |-> FALSE, panic |-> TRUE, msg |-> msg, exchanges |-> 0]

\* a transport that sends the request before it looks at the credential
rest_send_first(c, request, exchange) ==
  IF ~request.inner_ok THEN RestPanic("called Option::unwrap() on a None value")
  ELSE LET h == set_header(c.token, request.headers) IN
       IF ~exchange.ok THEN RestErr(ErrClient(exchange.err), 1)
       ELSE IF ~h.ok THEN RestErr(ErrClient("AuthError"), 1)
       ELSE RestOk([request EXCEPT !.headers = h.headers], http_response(exchange.v))

\* Traduora::rest: headers_mut().unwrap() panics on a builder in its error
\* state; a failure of set_header or of the exchange is ApiError::Client
rest(c, request, exchange) ==
  IF ~request.inner_ok THEN RestPanic("called Option::unwrap() on a None value")
  ELSE LET h == set_header(c.token, request.headers) IN
       IF ~h.ok THEN RestErr(ErrClient("AuthError"), 0)
       ELSE IF ~exchange.ok THEN RestErr(ErrClient(exchange.err), 1)
       ELSE RestOk([request EXCEPT !.headers = h.headers], http_response(exchange.v))

\* AsyncTraduora::rest_async
rest_async(c, request, exchange) ==
  IF ~request.inner_ok THEN RestPanic("called Option::unwrap() on a None value")
  ELSE LET h == set_header(c.token, request.headers) IN
       IF ~h.ok THEN RestErr(ErrClient("AuthError"), 0)
       ELSE IF ~exchange.ok THEN RestErr(ErrClient(exchange.err), 1)
       ELSE RestOk([request EXCEPT !.headers = h.headers], http_response(exchange.v))

\* the transport of the client type
Transport(c, request, exchange) ==
  IF c.kind = "Traduora" THEN rest(c, request, exchange)
  ELSE rest_async(c, request, exchange)

(***************************************************************************)
(* What a server may answer.                                               *)
(***************************************************************************)
Statuses == {199, 200, 299, 300, 404, 500}

ModelTypes == {e.model : e \in Endpoints}

Atoms == {JNull, JNum(0), JStr("a"), JArr(<<>>), JObj(EmptyMap)}

\* every model value as the bare JSON a server sends for it
BareVals == UNION {{to_value(ty, v) : v \in ModelVals(ty)} : ty \in ModelTypes}

\* the same inside the {"data": ..} envelope
Enveloped == {Obj1("data", j) : j \in Atoms \cup BareVals}

ErrArgs == {JStr("a"), JStr("b"), JNull, Obj1("unexpected_key", JStr("a"))}

\* error bodies: {"message": ..}, {"error": ..}, both, neither
ErrorVals ==
  {Obj1("message", x) : x \in ErrArgs}
    \cup {Obj1("error", x) : x \in ErrArgs}
    \cup {Obj2("message", x, "error", y) : x, y \in {JStr("a"), JStr("b")}}
    \cup {Obj2("message", JStr("m1"), "error", JStr("m2")),
          Obj2("message", JNull, "error", JStr("a")),
          Obj1("error", JStr("legacy"))}
    \cup {Obj1("unexpected_key", JStr("a"))}

WireVals == Atoms \cup BareVals \cup Enveloped \cup ErrorVals

\* the first n lexemes of a body (all of it when it is shorter)
Prefix(b, n) == SubSeq(b, 1, IF n < Len(b) THEN n ELSE Len(b))

\* bodies: well-formed JSON, JSON cut off after a few lexemes, plain text,
\* JSON followed by text, and the empty body
Bodies ==
  {to_vec(j) : j \in WireVals}
    \cup {Prefix(to_vec(j), n) : j \in WireVals, n \in 0..MaxTrunc}
    \cup {<<TJunk, TJunk>>}
    \cup {to_vec(j) \o <<TJunk>> : j \in Atoms}

\* the headers of the responses: a JSON content type
JsonHeaders == [n \in {"content-type"} |-> <<JSON>>]

Responses == [status : Statuses, headers : {JsonHeaders}, body : Bodies]

(***************************************************************************)
(* State.                                                                  *)
(***************************************************************************)
VARIABLES
  client,   \* the client value the caller holds
  pc,       \* position of the query: idle, built, responded, done
  call,     \* the running query: endpoint, style, mapper
  req,      \* the request handed to the transport, with its payload
  rsp,      \* the raw response of the transport
  result,   \* what process_response / the query returned
  rest_calls, \* how often the running query has called rest / rest_async
  exchanges, \* how often the transport has started an exchange with the server
  builder,  \* the Builder the client is built from, while a client is built
  log,      \* the logger: its maximum level and the records it was handed
  peer      \* a second query in flight: its client handle, pc, call, req,
            \* rsp, result, rest_calls

vars == <<client, pc, call, req, rsp, result, rest_calls, exchanges, builder, log, peer>>

Nil == [nil |-> TRUE]

\* a logger that is switched off: no record is kept
LogOff == [max_level |-> "Off", records |-> <<>>]

Init ==
  /\ client \in Clients
  /\ pc = "idle"
  /\ call = Nil
  /\ req = Nil
  /\ rsp = Nil
  /\ result = Nil
  /\ rest_calls = 0
  /\ exchanges = 0
  /\ builder = Nil
  /\ log = LogOff
  /\ peer = Nil

\* query / query_custom / query_async / query_custom_async up to the call of
\* the transport: the call type-checks only under ScopeBound
Query(e, style, target) ==
  /\ pc = "idle"
  /\ style \in Styles(client)
  /\ ScopeBound(e, client)
  /\ call' = [e |-> e, style |-> style, mapper |-> MapperOf(e, style, target)]
  /\ LET b == build_request_with_body(e, client) IN
     IF b.ok
     THEN /\ req' = [req |-> b.req, data |-> b.data]
          /\ pc' = "built"
          /\ UNCHANGED result
     ELSE IF b.panic
     THEN /\ pc' = "panicked"
          /\ UNCHANGED <<req, result>>
     ELSE /\ result' = [res |-> b.err, mapped |-> FALSE, classified |-> FALSE]
          /\ pc' = "done"
          /\ UNCHANGED req
  /\ UNCHANGED <<log, builder, peer, client, rsp, rest_calls, exchanges>>

\* a query that calls the transport a second time after a failure
RestFailsRetry ==
  /\ pc = "built"
  /\ LET x == Transport(client, req.req, ExchangeFails) IN
     /\ ~x.ok /\ ~x.panic
     /\ result' = [res |-> x.err, mapped |-> FALSE, classified |-> FALSE]
     /\ exchanges' = exchanges + x.exchanges
  /\ pc' = IF rest_calls = 0 THEN "built" ELSE "done"
  /\ rest_calls' = rest_calls + 1
  /\ UNCHANGED <<log, builder, peer, client, call, req, rsp>>

\* Client::rest / AsyncClient::rest_async returning Err: the credential is
\* no header value, or the exchange fails (reqwest::Error)
RestFails ==
  /\ pc = "built"
  /\ LET x == Transport(client, req.req, ExchangeFails) IN
     /\ ~x.ok /\ ~x.panic
     /\ result' = [res |-> x.err, mapped |-> FALSE, classified |-> FALSE]
     /\ exchanges' = exchanges + x.exchanges
  /\ pc' = "done"
  /\ rest_calls' = rest_calls + 1
  /\ UNCHANGED <<log, builder, peer, client, call, req, rsp>>

\* Client::rest / AsyncClient::rest_async panicking
RestPanics ==
  /\ pc = "built"
  /\ Transport(client, req.req, ExchangeFails).panic
  /\ pc' = "panicked"
  /\ rest_calls' = rest_calls + 1
  /\ UNCHANGED <<log, builder, peer, client, call, req, rsp, result, exchanges>>

\* Client::rest / AsyncClient::rest_async returning the server's response
RestResponds(r) ==
  /\ pc = "built"
  /\ LET x == Transport(client, req.req, ExchangeOk(r)) IN
     /\ x.ok
     /\ req' = [req EXCEPT !.req = x.sent]
     /\ rsp' = x.rsp
     /\ exchanges' = exchanges + x.exchanges
  /\ pc' = "responded"
  /\ rest_calls' = rest_calls + 1
  /\ UNCHANGED <<log, builder, peer, client, call, result>>

\* process_response on the response, with the mapper of the query
ProcessResponse ==
  /\ pc = "responded"
  /\ result' = process_response(rsp, call.mapper)
  /\ pc' = "done"
  /\ UNCHANGED <<log, builder, peer, client, call, req, rsp, rest_calls, exchanges>>

\* the caller takes the result; the descriptor and the response are dropped
Return ==
  /\ pc = "done"
  /\ pc' = "idle"
  /\ call' = Nil
  /\ req' = Nil
  /\ rsp' = Nil
  /\ result' = Nil
  /\ rest_calls' = 0
  /\ exchanges' = 0
  /\ UNCHANGED <<log, builder, peer, client>>

QueryDefault == \E e \in Endpoints : \E s \in {"query", "query_async"} : Query(e, s, e.model)
QueryCustom ==
  \E e \in Endpoints : \E s \in {"query_custom", "query_custom_async"} :
    \E t \in CustomTypes : Query(e, s, t)
Rest == \E r \in Responses : RestResponds(r)

Next ==
  \/ QueryDefault
  \/ QueryCustom
  \/ RestFails
  \/ RestPanics
  \/ Rest
  \/ ProcessResponse
  \/ Return

Spec == Init /\ [][Next]_vars

(***************************************************************************)
(* Two queries in flight.  The second goes through a handle on the same    *)
(* client state (base url, credential): the same client, shared, or the    *)
(* client of the other kind built from the same inputs.                    *)
(***************************************************************************)
IdleTask(c) ==
  [client |-> c, pc |-> "idle", call |-> Nil, req |-> Nil, rsp |-> Nil,
   result |-> Nil, rest_calls |-> 0]

\* the endpoints, caller types and responses of the runs with two queries
PairEndpoints ==
  {Token, Me, UserEndpoint(<<"dummy">>, BodyOk(None)),
   UserEndpoint(<<"", "", "">>, BodyErr)}
PairTypes == {TValue}
PairBodies ==
  {<<>>, <<TJunk, TJunk>>, to_vec(Obj1("message", JStr("a"))),
   to_vec(Obj1("data", JNull))}
PairResponses == [status : {200, 404}, headers : {JsonHeaders}, body : PairBodies]

InitPair ==
  /\ client \in Clients
  /\ pc = "idle"
  /\ call = Nil
  /\ req = Nil
  /\ rsp = Nil
  /\ result = Nil
  /\ rest_calls = 0
  /\ exchanges = 0
  /\ builder = Nil
  /\ log = LogOff
  /\ \E c \in Clients :
       /\ c.rest_url = client.rest_url
       /\ c.token = client.token
       /\ peer = IdleTask(c)

mine == <<client, pc, call, req, rsp, result, rest_calls, exchanges, builder, log>>

\* a second query whose url says whether another query is in flight
PeerQueryStamped(e, style, target) ==
  /\ peer.pc = "idle"
  /\ style \in Styles(peer.client)
  /\ ScopeBound(e, peer.client)
  /\ LET b == build_request_with_body(e, peer.client)
         c == [e |-> e, style |-> style, mapper |-> MapperOf(e, style, target)]
     IN peer' =
          IF b.ok
          THEN [peer EXCEPT !.call = c,
                            !.req = [req |-> IF pc = "idle" THEN b.req
                                             ELSE [b.req EXCEPT !.uri.segs = @ \o <<"2">>],
                                     data |-> b.data],
                            !.pc = "built"]
          ELSE IF b.panic
          THEN [peer EXCEPT !.call = c, !.pc = "panicked"]
          ELSE [peer EXCEPT !.call = c, !.pc = "done",
                            !.result = [res |-> b.err, mapped |-> FALSE,
                                        classified |-> FALSE]]
  /\ UNCHANGED mine

\* the second query up to the call of the transport
PeerQuery(e, style, target) ==
  /\ peer.pc = "idle"
  /\ style \in Styles(peer.client)
  /\ ScopeBound(e, peer.client)
  /\ LET b == build_request_with_body(e, peer.client)
         c == [e |-> e, style |-> style, mapper |-> MapperOf(e, style, target)]
     IN peer' =
          IF b.ok
          THEN [peer EXCEPT !.call = c, !.req = [req |-> b.req, data |-> b.data],
                            !.pc = "built"]
          ELSE IF b.panic
          THEN [peer EXCEPT !.call = c, !.pc = "panicked"]
          ELSE [peer EXCEPT !.call = c, !.pc = "done",
                            !.result = [res |-> b.err, mapped |-> FALSE,
                                        classified |-> FALSE]]
  /\ UNCHANGED mine

\* the transport of the second query returning Err
PeerRestFails ==
  /\ peer.pc = "built"
  /\ LET x == Transport(peer.client, peer.req.req, ExchangeFails) IN
     /\ ~x.ok /\ ~x.panic
     /\ peer' = [peer EXCEPT !.pc = "done", !.rest_calls = @ + 1,
                             !.result = [res |-> x.err, mapped |-> FALSE,
                                         classified |-> FALSE]]
  /\ UNCHANGED mine

\* the transport of the second query returning the server's response
PeerRestResponds(r) ==
  /\ peer.pc = "built"
  /\ LET x == Transport(peer.client, peer.req.req, ExchangeOk(r)) IN
     /\ x.ok
     /\ peer' = [peer EXCEPT !.pc = "responded", !.rest_calls = @ + 1,
                             !.req.req = x.sent, !.rsp = x.rsp]
  /\ UNCHANGED mine

\* a second query that decodes the response the client received last
PeerProcessResponseShared ==
  /\ peer.pc = "responded"
  /\ peer' = [peer EXCEPT !.pc = "done",
                          !.result = process_response(IF rsp # Nil THEN rsp ELSE peer.rsp,
                                                      peer.call.mapper)]
  /\ UNCHANGED mine

\* process_response of the second query, on its own response
PeerProcessResponse ==
  /\ peer.pc = "responded"
  /\ peer' = [peer EXCEPT !.pc = "done",
                          !.result = process_response(peer.rsp, peer.call.mapper)]
  /\ UNCHANGED mine

\* the caller of the second query takes the result
PeerReturn ==
  /\ peer.pc = "done"
  /\ peer' = IdleTask(peer.client)
  /\ UNCHANGED mine

PairQueryDefault ==
  \E e \in PairEndpoints : \E s \in {"query", "query_async"} : Query(e, s, e.model)
PairQueryCustom ==
  \E e \in PairEndpoints : \E s \in {"query_custom", "query_custom_async"} :
    \E t \in PairTypes : Query(e, s, t)
PairRest == \E r \in PairResponses : RestResponds(r)
PeerQueryDefault ==
  \E e \in PairEndpoints : \E s \in {"query", "query_async"} : PeerQuery(e, s, e.model)
PeerQueryCustom ==
  \E e \in PairEndpoints : \E s \in {"query_custom", "query_custom_async"} :
    \E t \in PairTypes : PeerQuery(e, s, t)
PeerRest == \E r \in PairResponses : PeerRestResponds(r)

NextPair ==
  \/ PairQueryDefault
  \/ PairQueryCustom
  \/ RestFails
  \/ PairRest
  \/ ProcessResponse
  \/ Return
  \/ PeerQueryDefault
  \/ PeerQueryCustom
  \/ PeerRestFails
  \/ PeerRest
  \/ PeerProcessResponse
  \/ PeerReturn

SpecPair == InitPair /\ [][NextPair]_vars

(***************************************************************************)
(* Properties.                                                             *)
(***************************************************************************)
Processed == pc = "done" /\ rsp # Nil
SuccessStatus == rsp.status \in 200..299
DefaultStyle == call.style \in {"query", "query_async"}
CustomStyle == call.style \in {"query_custom", "query_custom_async"}

\* the body a server sends for the model value v of type ty, enveloped or bare
EnvelopeBody(ty, v) == to_vec(Obj1("data", to_value(ty, v)))
BareBody(ty, v) == to_vec(to_value(ty, v))

\* every model value of every endpoint with its two bodies
WireCases ==
  UNION {{[ty |-> ty, v |-> v, enveloped |-> EnvelopeBody(ty, v), bare |-> BareBody(ty, v)] :
            v \in ModelVals(ty)} : ty \in ModelTypes}
UserInfoCases == {c \in WireCases : c.ty = UserInfo}

\* C1: a processed response is Ok only under a 2xx status, and every other
\* status gives Err whatever the body is.
C1_StatusClassBranch ==
  Processed =>
    /\ result.res.ok => rsp.status >= 200 /\ rsp.status <= 299
    /\ rsp.status \in {199, 300, 404, 500} => ~result.res.ok

\* C1 witness: a 404 whose body would decode to the model of the endpoint.
C1_Witness ==
  /\ Processed
  /\ rsp.status = 404
  /\ call.e.name = "Me" /\ DefaultStyle
  /\ \E c \in UserInfoCases : rsp.body = c.enveloped
  /\ ~result.res.ok

\* C2: a query of an endpoint that requires Authenticated is only ever
\* admitted for a client that holds a credential.
C2_ScopeGating ==
  pc # "idle" /\ call.e.access = "Authenticated" => client.token.lvl = "Authenticated"

Allowed ==
  { <<"Unauthenticated", "Unauthenticated">>,
    <<"Authenticated", "Unauthenticated">>,
    <<"Authenticated", "Authenticated">> }
ScopeLevels == {"Unauthenticated", "Authenticated"}

C4_EnvelopeRoundTrip ==
  Processed /\ DefaultStyle /\ call.e.name \in {"Me", "Signup"} /\ SuccessStatus =>
    \A c \in WireCases :
      c.ty = call.e.model /\ rsp.body = c.enveloped => result.res = Ok(c.v)

\* C4 witness: Me answered with an enveloped UserInfo that has a project count.
C4_Witness ==
  /\ Processed /\ DefaultStyle /\ call.e.name = "Me" /\ rsp.status = 200
  /\ \E c \in UserInfoCases :
       /\ c.v.f.num_projects_created # RNone
       /\ rsp.body = c.enveloped
       /\ result.res = Ok(c.v)

\* C5: Token and Providers decode a success body that is the bare JSON of
\* their model, with no {"data": ..} around it.
C5_NonEnvelopedOverride ==
  Processed /\ DefaultStyle /\ call.e.name \in {"Token", "Providers"} /\ SuccessStatus =>
    \A c \in WireCases :
      c.ty = call.e.model /\ rsp.body = c.bare => result.res = Ok(c.v)

\* C5 witness: Token answered with a bare access token object.
C5_Witness ==
  /\ Processed /\ DefaultStyle /\ call.e.name = "Token" /\ rsp.status = 200
  /\ \E c \in WireCases :
       c.ty = AccessToken /\ rsp.body = c.bare /\ result.res = Ok(c.v)

\* C6 as claimed: on a success body {"data": v} a custom query into T gives
\* what the default path gives for model T, the value v.
C6_CustomSameEnvelope ==
  Processed /\ CustomStyle /\ SuccessStatus /\ call.mapper.ty = UserInfo =>
    \A c \in UserInfoCases :
      rsp.body = c.enveloped => result.res = Ok(c.v)

\* C6 amended: a custom query decodes the whole parsed body into the named
\* type: on a success body {"data": v} a caller type with a data field gets
\* v in that field, serde_json::Value gets the whole wrapper object, and the
\* model type itself fails with DataType.
C6_CustomDecodesWholeBody ==
  Processed /\ CustomStyle /\ SuccessStatus =>
    \A c \in UserInfoCases :
      rsp.body = c.enveloped =>
        /\ call.mapper.ty = UserDataInfo(UserInfo) =>
             result.res = Ok(RStruct(UserDataInfo(UserInfo).name, [f \in {"data"} |-> c.v]))
        /\ call.mapper.ty = TValue =>
             result.res = Ok(RValue(Obj1("data", to_value(UserInfo, c.v))))
        /\ call.mapper.ty = UserInfo =>
             result.res = ErrDataType(UserInfo.name)

\* C6 witness: a custom query into the wrapper type on an enveloped UserInfo.
C6_Witness ==
  /\ Processed /\ CustomStyle /\ rsp.status = 200
  /\ call.e.name = "Me"
  /\ call.mapper.ty = UserDataInfo(UserInfo)
  /\ \E c \in UserInfoCases : rsp.body = c.enveloped
  /\ result.res.ok

\* C7: an empty body under a success status is mapped as JSON null: the
\* mapper runs, the envelope mapping and struct or list targets give
\* DataType naming the target, a unit target gives Ok(()), never a Json error.
C7_EmptyBodyIsNull ==
  Processed /\ SuccessStatus /\ rsp.body = <<>> =>
    /\ result.mapped
    /\ result.res # ErrJson
    /\ call.mapper.f = "default" \/ call.mapper.ty.k \in {"struct", "vec"} =>
         result.res = ErrDataType(call.mapper.ty.name)
    /\ call.mapper.f = "from_value" /\ call.mapper.ty = TUnit => result.res = Ok(RUnit)
    /\ call.mapper.f = "from_value" /\ call.mapper.ty = TValue => result.res = Ok(RValue(JNull))

\* C7 witness: the default envelope mapping meets an empty 200 response.
C7_Witness ==
  /\ Processed /\ rsp.status = 200 /\ rsp.body = <<>>
  /\ call.mapper.f = "default"
  /\ result.res.ok = FALSE /\ result.res.err = "DataType"

\* C8: a success status with a non-empty body that is no JSON gives the Json
\* error, and the mapping function is not applied.
C8_InvalidJsonOnSuccess ==
  Processed /\ SuccessStatus /\ rsp.body # <<>> /\ ~from_slice(rsp.body).ok =>
    /\ result.res = ErrJson
    /\ ~result.mapped

\* C8 witness: a 200 response whose body is plain text.
C8_Witness ==
  /\ Processed /\ rsp.status = 200 /\ rsp.body = <<TJunk, TJunk>>
  /\ result.res = ErrJson

\* C9: a success status with a JSON body that the mapping function rejects
\* gives DataType with the name of the target model type; a JSON object
\* without "data" under the default mapping is such a body.
C9_MappingFailureIsDataType ==
  Processed /\ SuccessStatus /\ from_slice(rsp.body).ok =>
    LET v == from_slice(rsp.body).v IN
    /\ ~ApplyMapper(call.mapper, v).ok =>
         result.res = ErrDataType(IF DefaultStyle THEN call.e.model.name
                                  ELSE call.mapper.ty.name)
    /\ DefaultStyle /\ call.e.name \in {"Me", "Signup"} /\ v.t = "obj" /\ "data" \notin DOMAIN v.m =>
         result.res = ErrDataType(call.e.model.name)

\* C9 witness: Me answered with a bare UserInfo, without the envelope.
C9_Witness ==
  /\ Processed /\ DefaultStyle /\ call.e.name = "Me" /\ rsp.status = 200
  /\ \E c \in UserInfoCases : rsp.body = c.bare
  /\ result.res = ErrDataType(UserInfo.name)

\* C10: a non-success status with a non-empty body that is no JSON gives
\* TraduoraService with the status and the raw body of the response, and no
\* message/error lookup takes place.
C10_UnparsableErrorBody ==
  Processed /\ ~(rsp.status \in 200..299) /\ rsp.body # <<>> /\ ~from_slice(rsp.body).ok =>
    /\ result.res = [ok |-> FALSE, err |-> "TraduoraService",
                     status |-> rsp.status, data |-> rsp.body]
    /\ ~result.classified

\* C10 witness: a 404 with the plain text body `not json`.
C10_Witness ==
  /\ Processed /\ rsp.status = 404 /\ rsp.body = <<TJunk, TJunk>>
  /\ result.res.ok = FALSE /\ result.res.err = "TraduoraService"

\* C11: a non-success status with an empty body gives TraduoraService with
\* the status and the empty raw bytes.
C11_EmptyErrorBodyIsService ==
  Processed /\ ~(rsp.status \in 200..299) /\ rsp.body = <<>> =>
    result.res = [ok |-> FALSE, err |-> "TraduoraService",
                  status |-> rsp.status, data |-> <<>>]

ErrorStatus == ~(rsp.status \in 200..299)

\* the JSON value an error result carries: the message as a JSON string, or
\* the object of TraduoraObject
Carried(res) ==
  IF res.err = "Traduora" THEN Some(JStr(res.msg))
  ELSE IF res.err = "TraduoraObject" THEN Some(res.obj)
  ELSE None

\* C12: on a non-success JSON body the error is taken from the member
\* "message" whenever that key is present and from "error" only when
\* "message" is absent; {"message": "m1", "error": "m2"} gives the message
\* m1 and {"error": "legacy"} gives legacy.
C12_MessageBeforeError ==
  Processed /\ ErrorStatus /\ rsp.body # <<>> /\ from_slice(rsp.body).ok =>
    LET v == from_slice(rsp.body).v IN
    /\ v.t = "obj" /\ "message" \in DOMAIN v.m =>
         Carried(result.res) = Some(v.m["message"])
    /\ v.t = "obj" /\ "message" \notin DOMAIN v.m /\ "error" \in DOMAIN v.m =>
         Carried(result.res) = Some(v.m["error"])
    /\ v = Obj2("message", JStr("m1"), "error", JStr("m2")) =>
         result.res = ErrTraduora("m1")
    /\ v = Obj1("error", JStr("legacy")) => result.res = ErrTraduora("legacy")

\* C12 witness: a 404 whose body holds both keys, answered with the message.
C12_Witness ==
  /\ Processed /\ rsp.status = 404
  /\ rsp.body = to_vec(Obj2("message", JStr("m1"), "error", JStr("m2")))
  /\ result.res = ErrTraduora("m1")

\* the member of an error body the lookup finds: "message", else "error"
Found(v) ==
  IF v.t # "obj" THEN None
  ELSE IF "message" \in DOMAIN v.m THEN Some(v.m["message"])
  ELSE IF "error" \in DOMAIN v.m THEN Some(v.m["error"])
  ELSE None

\* C13: on a non-success JSON body with an error value at "message" (else
\* "error"), a string value gives Traduora with that string as msg, and any
\* other value gives TraduoraObject with exactly that value, not the body.
C13_StringOrObject ==
  Processed /\ ErrorStatus /\ rsp.body # <<>> /\ from_slice(rsp.body).ok =>
    LET f == Found(from_slice(rsp.body).v) IN
    f # None =>
      /\ f[1].t = "str" => result.res = ErrTraduora(f[1].s)
      /\ f[1].t # "str" => result.res = ErrTraduoraObject(f[1])

\* C13 witness: a 500 whose message is an object, which differs from the body.
C13_Witness ==
  /\ Processed /\ rsp.status = 500
  /\ rsp.body = to_vec(Obj1("message", Obj1("unexpected_key", JStr("a"))))
  /\ result.res = ErrTraduoraObject(Obj1("unexpected_key", JStr("a")))

\* C14: a non-success status with a JSON body that has neither "message" nor
\* "error" (a body that is no JSON object included) gives
\* TraduoraUnrecognized with the whole parsed value.
C14_UnrecognizedCarriesBody ==
  Processed /\ ErrorStatus /\ rsp.body # <<>> /\ from_slice(rsp.body).ok =>
    LET v == from_slice(rsp.body).v IN
    (v.t # "obj" \/ ("message" \notin DOMAIN v.m /\ "error" \notin DOMAIN v.m)) =>
      result.res = [ok |-> FALSE, err |-> "TraduoraUnrecognized", obj |-> v]

\* C14 witness: a 404 with the body {"unexpected_key": "a"}.
C14_Witness ==
  /\ Processed /\ rsp.status = 404
  /\ rsp.body = to_vec(Obj1("unexpected_key", JStr("a")))
  /\ result.res = ErrTraduoraUnrecognized(Obj1("unexpected_key", JStr("a")))

\* the failures a finished call was exposed to, read off its inputs
JoinFails == call.e.endpoint = <<"", "", "">>
BodyFails == ~call.e.body.ok
CredentialFails == client.token.lvl = "Authenticated" /\ client.token.tok = BadToken

\* C15: of the failures that apply to one call the first of UrlParse, Body,
\* Client, Json, DataType is the one returned: an unjoinable path gives
\* UrlParse whatever else is wrong, a failing body gives Body unless the path
\* is unjoinable and the transport is never called, a failing transport
\* gives Client before any response is looked at, and a success body that is
\* no JSON gives Json and never DataType.
C15_ErrorPriority ==
  pc = "done" =>
    /\ JoinFails => result.res = ErrUrlParse("EmptyHost") /\ rest_calls = 0
    /\ ~JoinFails /\ BodyFails => result.res = ErrBody("SerdeJson")
    /\ BodyFails => rest_calls = 0 /\ req = Nil /\ rsp = Nil
    /\ ~JoinFails /\ ~BodyFails /\ CredentialFails => result.res = ErrClient("AuthError")
    /\ ~JoinFails /\ ~BodyFails /\ rsp = Nil =>
         ~result.res.ok /\ result.res.err = "Client"
    /\ rsp # Nil /\ rsp.status \in 200..299 /\ ~from_slice(FilledBody(rsp)).ok =>
         result.res = ErrJson
    /\ ~result.res.ok /\ result.res.err = "DataType" =>
         /\ ~JoinFails /\ ~BodyFails /\ rest_calls = 1
         /\ from_slice(FilledBody(rsp)).ok

\* C15 witness: a call with an unjoinable path, a failing body and a
\* credential that is no header value returns UrlParse.
C15_Witness ==
  /\ pc = "done"
  /\ JoinFails /\ BodyFails /\ CredentialFails
  /\ result.res = ErrUrlParse("EmptyHost")

\* C16: a query calls rest / rest_async at most once: not at all when the
\* url join or the body failed, exactly once when the request was built,
\* and a transport error or a non-success response ends the call without a
\* second try.
C16_OneTransportCall ==
  /\ rest_calls \in {0, 1}
  /\ pc \in {"idle", "built"} => rest_calls = 0
  /\ pc = "responded" => rest_calls = 1
  /\ pc = "done" =>
       /\ JoinFails \/ BodyFails => rest_calls = 0
       /\ ~JoinFails /\ ~BodyFails => rest_calls = 1
       /\ ~result.res.ok /\ result.res.err = "Client" => rest_calls = 1
       /\ rsp # Nil /\ ~(rsp.status \in 200..299) => rest_calls = 1

\* C16 witness: a call whose exchange failed has returned the Client error
\* after one call of the transport.
C16_Witness ==
  /\ pc = "done"
  /\ result.res = ErrClient("Communication")
  /\ rest_calls = 1

\* both queries run the same endpoint with the same mapping
SameCall ==
  /\ pc # "idle" /\ peer.pc # "idle"
  /\ call.e = peer.call.e
  /\ call.mapper = peer.call.mapper

\* C17: the blocking and the asynchronous form agree for every endpoint,
\* client state and transport outcome: a call one form performs on a client
\* state is one the other form performs on that state, both build the same
\* request, and both return the same result for the same outcome.
C17_SyncAsyncEquivalent ==
  client.kind = "Traduora" /\ peer.client.kind = "AsyncTraduora" =>
    /\ peer.pc # "idle" => ScopeBound(peer.call.e, client)
    /\ pc # "idle" => ScopeBound(call.e, peer.client)
    /\ SameCall /\ pc = peer.pc /\ pc \in {"built", "responded"} /\ rsp = peer.rsp =>
         req = peer.req
    /\ SameCall /\ pc = "done" /\ peer.pc = "done" /\ rsp = peer.rsp =>
         /\ req = peer.req
         /\ result = peer.result

\* what the call cl returns when it runs alone on client c and the exchange
\* with the server ends as given
Alone(c, cl, exchange) ==
  LET b == build_request_with_body(cl.e, c) IN
  IF ~b.ok THEN b.err
  ELSE LET x == Transport(c, b.req, exchange) IN
       IF ~x.ok THEN x.err
       ELSE process_response(x.rsp, cl.mapper).res

\* the exchange a finished query had: its response, or the failure
ExchangeOf(r) == IF r = Nil THEN ExchangeFails ELSE ExchangeOk(r)

\* C18: two queries in flight through one shared client do not affect each
\* other: under every interleaving each returns what it returns when run
\* alone against its own response, and no step changes the base url or the
\* credential of the client.
C18_ConcurrentIndependent ==
  /\ [](peer.client = client =>
         /\ pc = "done" => result.res = Alone(client, call, ExchangeOf(rsp))
         /\ peer.pc = "done" =>
              peer.result.res = Alone(client, peer.call, ExchangeOf(peer.rsp)))
  /\ [][client' = client /\ peer'.client = peer.client]_vars

\* C18 witness: both queries are between request and result at once, on
\* different endpoints and different responses, and the first has returned
\* while the second still waits to be decoded.
C18_Witness ==
  /\ peer.client = client
  /\ pc = "done" /\ peer.pc = "responded"
  /\ call.e # peer.call.e
  /\ rsp # Nil /\ rsp # peer.rsp
  /\ result.res = Alone(client, call, ExchangeOk(rsp))

\* method, url, content type and body of a request
Wire(q) ==
  [method |-> q.req.method, uri |-> q.req.uri,
   content_type |-> q.req.headers.content_type, body |-> q.data]

C20_NoPanic ==
  /\ pc # "panicked"
  /\ pc = "done" => result.res.ok \/ result.res.err \in
       {"Client", "UrlParse", "Body", "Json", "Traduora", "TraduoraService",
        "TraduoraObject", "TraduoraUnrecognized", "DataType"}

(***************************************************************************)
(* set_header on its own: a scope applied to a header map that may hold    *)
(* Authorization values already.                                           *)
(***************************************************************************)
\* Authorization values some other code put into the map
OldBasic == [value |-> <<"Basic ", "dXNlcg">>, sensitive |-> FALSE]
OldBearer == [value |-> <<"Bearer ", "old">>, sensitive |-> TRUE]

HeaderMaps ==
  [content_type : {None, Some(JSON), Some("text/plain")},
   authorization : {<<>>, <<OldBasic>>, <<OldBearer>>, <<OldBasic, OldBearer>>}]

InitHeader ==
  /\ client \in Clients
  /\ pc = "idle"
  /\ call = Nil
  /\ req \in [headers : HeaderMaps]
  /\ rsp = Nil
  /\ result = Nil
  /\ rest_calls = 0
  /\ exchanges = 0
  /\ builder = Nil
  /\ log = LogOff
  /\ peer = Nil

\* self.token.set_header(headers)
SetHeader ==
  /\ pc = "idle"
  /\ result' = set_header(client.token, req.headers)
  /\ pc' = "done"
  /\ UNCHANGED <<log, builder, peer, client, call, req, rsp, rest_calls, exchanges>>

SpecHeader == InitHeader /\ [][SetHeader]_vars

\* C21: set_header of an Authenticated scope with token t leaves exactly one
\* Authorization value, Bearer t marked sensitive, whatever values the name
\* had before, and leaves every other header as it was; set_header of an
\* Unauthenticated scope leaves the whole map as it was.
C21_SetHeader ==
  pc = "done" =>
    /\ client.token.lvl = "Authenticated" /\ client.token.tok = GoodToken =>
         /\ result.ok
         /\ result.headers.authorization =
              <<[value |-> <<"Bearer ", GoodToken>>, sensitive |-> TRUE]>>
         /\ result.headers.content_type = req.headers.content_type
    /\ client.token.lvl = "Unauthenticated" =>
         result.ok /\ result.headers = req.headers

\* C21 witness: a map with two Authorization values and a content type,
\* after set_header of an Authenticated scope.
C21_Witness ==
  /\ pc = "done"
  /\ client.token.lvl = "Authenticated"
  /\ req.headers.authorization = <<OldBasic, OldBearer>>
  /\ req.headers.content_type = Some(JSON)
  /\ Len(result.headers.authorization) = 1

\* C22: with a credential that is no header value set_header fails and leaves
\* the header map as it was, and a query through the client returns that
\* failure as a Client error without any exchange with the server.
C22_IllegalCredential ==
  pc = "done" /\ CredentialFails /\ req # Nil =>
    /\ set_header(client.token, req.req.headers) =
         [ok |-> FALSE, headers |-> req.req.headers]
    /\ req.req.headers.authorization = None
    /\ result.res = ErrClient("AuthError")
    /\ exchanges = 0
    /\ rsp = Nil

\* C22 witness: the query of Token through a client whose token has a line
\* break has ended in the Client error.
C22_Witness ==
  /\ pc = "done" /\ CredentialFails
  /\ call.e = Token
  /\ rest_calls = 1 /\ exchanges = 0
  /\ result.res = ErrClient("AuthError")

(***************************************************************************)
(* Construction of clients (traduora.rs): the constructors, the builder    *)
(* and the token exchange of authenticate.                                 *)
(***************************************************************************)
InitBuild ==
  /\ client = Nil
  /\ pc = "start"
  /\ call = Nil
  /\ req = Nil
  /\ rsp = Nil
  /\ result = Nil
  /\ rest_calls = 0
  /\ exchanges = 0
  /\ builder = Nil
  /\ log = LogOff
  /\ peer = Nil

\* Traduora::new / AsyncTraduora::new (insecure = FALSE) and
\* Traduora::new_insecure / AsyncTraduora::new_insecure (insecure = TRUE)
New(kind, insecure) ==
  /\ pc = "start"
  /\ LET b == IF insecure
              THEN validate_certs(use_http(BuilderNew(Host), TRUE), FALSE)
              ELSE BuilderNew(Host)
     IN /\ builder' = b
        /\ client' = build_unauthenticated_from(b, kind)
  /\ pc' = "idle"
  /\ UNCHANGED <<log, peer, call, req, rsp, result, rest_calls, exchanges>>

\* Builder::new(Host).with_access_token(t).build() / build_async()
WithAccessToken(kind, t) ==
  /\ pc = "start"
  /\ LET b == with_access_token(BuilderNew(Host), t) IN
     /\ builder' = b
     /\ client' = build_access_token_from(b, kind)
  /\ pc' = "idle"
  /\ UNCHANGED <<log, peer, call, req, rsp, result, rest_calls, exchanges>>

\* Builder::new(Host).authenticate(login) up to the unauthenticated client
\* that Builder<Login>::build / build_async makes first
WithLogin(kind) ==
  /\ pc = "start"
  /\ LET b == authenticate(BuilderNew(Host), Token) IN
     /\ builder' = b
     /\ client' = build_unauthenticated_from(b, kind)
  /\ pc' = "idle"
  /\ UNCHANGED <<log, peer, call, req, rsp, result, rest_calls, exchanges>>

\* Traduora::authenticate / AsyncTraduora::authenticate up to the call of the
\* transport: login.query(&self) / login.query_async(&self)
Authenticate ==
  /\ pc = "idle"
  /\ client.token = Unauthenticated
  /\ LET style == IF client.kind = "Traduora" THEN "query" ELSE "query_async"
         b == build_request_with_body(Token, client)
     IN /\ call' = [e |-> Token, style |-> style,
                    mapper |-> MapperOf(Token, style, Token.model)]
        /\ IF b.ok
           THEN /\ req' = [req |-> b.req, data |-> b.data]
                /\ pc' = "built"
                /\ UNCHANGED result
           ELSE IF b.panic
           THEN /\ pc' = "panicked"
                /\ UNCHANGED <<req, result>>
           ELSE /\ result' = [res |-> b.err, mapped |-> FALSE, classified |-> FALSE]
                /\ pc' = "done"
                /\ UNCHANGED req
  /\ UNCHANGED <<log, builder, peer, client, rsp, rest_calls, exchanges>>

\* the access_token string of the decoded response of Token
AccessTokenOf(v) == v.f.access_token.x.s

\* an authenticate that keeps the token_type of the response as the credential
FinishAuthenticateTokenType ==
  /\ pc = "done"
  /\ IF result.res.ok
     THEN /\ client' = [client EXCEPT !.token = Authenticated(result.res.v.f.token_type.s)]
          /\ pc' = "authenticated"
     ELSE /\ client' = Nil
          /\ pc' = "failed"
  /\ UNCHANGED <<log, builder, peer, call, req, rsp, result, rest_calls, exchanges>>

\* the rest of authenticate: `?` on the result of the query, then the client
\* with the handle and url of self and token.into(); self is consumed
FinishAuthenticate ==
  /\ pc = "done"
  /\ IF result.res.ok
     THEN /\ client' = [client EXCEPT !.token = Authenticated(AccessTokenOf(result.res.v))]
          /\ pc' = "authenticated"
     ELSE /\ client' = Nil
          /\ pc' = "failed"
  /\ UNCHANGED <<log, builder, peer, call, req, rsp, result, rest_calls, exchanges>>

Construct == \E k \in ClientKinds : \E i \in BOOLEAN : New(k, i)
ConstructWithToken == \E k \in ClientKinds : \E t \in Tokens : WithAccessToken(k, t)
ConstructWithLogin == \E k \in ClientKinds : WithLogin(k)

NextBuild ==
  \/ Construct
  \/ ConstructWithToken
  \/ ConstructWithLogin
  \/ Authenticate
  \/ RestFails
  \/ Rest
  \/ ProcessResponse
  \/ FinishAuthenticate

SpecBuild == InitBuild /\ [][NextBuild]_vars

\* C23: a construction that needs no credential exchange (new, new_insecure,
\* with_access_token(..).build(), blocking or asynchronous) returns its client
\* without a call of the transport and without an exchange with the server,
\* and the client built from an access token holds exactly the given string.
C23_ConstructionWithoutExchange ==
  pc = "idle" =>
    /\ rest_calls = 0 /\ exchanges = 0 /\ req = Nil /\ rsp = Nil
    /\ client.rest_url = build_rest_url(builder.protocol, Host)
    /\ \A t \in Tokens :
         builder.login = [access_token |-> t] => client.token = Authenticated(t)
    /\ builder.login = [none |-> TRUE] => client.token = Unauthenticated

\* a client built from the token with a line break, and an insecure async one
C23_Witness ==
  /\ pc = "idle"
  /\ exchanges = 0
  /\ client.kind = "AsyncTraduora"
  /\ client.token = Authenticated(BadToken)
  /\ builder.login = [access_token |-> BadToken]

\* C24: the delete operations and ChangePassword return unit: the request is
\* a DELETE (a POST for ChangePassword), the mapping expects no envelope, a
\* success status with an empty body gives Ok(()), and the enveloped body
\* {"data": null} is not accepted as unit.
C24_DeleteReturnsUnit ==
  pc = "done" /\ rsp # Nil /\ DefaultStyle /\ call.e \in UnitEndpoints =>
    /\ req.req.method = IF call.e.name = "ChangePassword" THEN "POST" ELSE "DELETE"
    /\ call.mapper = [f |-> "from_value", ty |-> TUnit]
    /\ SuccessStatus /\ rsp.body = <<>> => result.res = Ok(RUnit)
    /\ SuccessStatus /\ rsp.body = to_vec(Obj1("data", JNull)) =>
         result.res = data_type(TUnit)

\* DeleteTerm answered by 200 with an empty body
C24_Witness ==
  /\ pc = "done"
  /\ rsp # Nil
  /\ call.e = DeleteTerm(ShortId, "t1")
  /\ call.style = "query_async"
  /\ rsp.status = 200
  /\ rsp.body = <<>>
  /\ result.res = Ok(RUnit)

\* C25: authenticating (authenticate, Builder<Login>::build, blocking or
\* asynchronous) performs exactly one token exchange, a POST to auth/token
\* sent without a credential; on success the authenticated client has the
\* base url and the transport handle of the unauthenticated one and holds
\* exactly the access_token of the response; on a failure there is no client.
C25_AuthenticateOnce ==
  /\ [](pc \in {"authenticated", "failed"} =>
          /\ rest_calls = 1 /\ exchanges = 1
          /\ call.e = Token
          /\ req.req.method = "POST"
          /\ req.req.uri = [build_rest_url(builder.protocol, Host) EXCEPT
                              !.segs = <<"api", "v1", "auth", "token">>]
          /\ req.req.headers.authorization = None
          /\ pc = "authenticated" <=> result.res.ok
          /\ pc = "authenticated" =>
               /\ result = process_response(rsp, [f |-> "from_value", ty |-> AccessToken])
               /\ client.token = Authenticated(result.res.v.f.access_token.x.s)
          /\ pc = "failed" => client = Nil)
  /\ [][pc' = "authenticated" =>
          /\ client'.rest_url = client.rest_url
          /\ client'.client = client.client
          /\ client'.kind = client.kind]_vars

\* an insecure async client authenticated with the token "b" of a response
\* whose token_type is "a"
C25_Witness ==
  /\ pc = "authenticated"
  /\ client.kind = "AsyncTraduora"
  /\ client.client.danger_accept_invalid_certs
  /\ client.token = Authenticated("b")
  /\ result.res.v.f.token_type = RStr("a")
  /\ exchanges = 1

\* an authentication that failed on a 404 of the server
C25_WitnessFailed ==
  /\ pc = "failed"
  /\ client = Nil
  /\ rsp # Nil
  /\ rsp.status = 404

\* C26: the request that build_request_with_body returns has the method of
\* the endpoint and the join of the API root with its path as uri; for a
\* body Some((mime, bytes)) it has the Content-Type header mime and the
\* payload bytes, for a body None it has no Content-Type and an empty payload.
C26_BodyApplied ==
  pc = "built" =>
    /\ req.req.inner_ok
    /\ req.req.method = call.e.method
    /\ req.req.uri = rest_endpoint(client, call.e.endpoint).v
    /\ IF call.e.body.v = None
       THEN req.req.headers.content_type = None /\ req.data = <<>>
       ELSE /\ req.req.headers.content_type = Some(call.e.body.v[1].mime)
            /\ req.data = call.e.body.v[1].data

(***************************************************************************)
(* Logging of the query pipeline of api/endpoint.rs: what query and        *)
(* query_async hand to the log facade.  Two calls run side by side on the  *)
(* same descriptor, client and logger and get responses with the same      *)
(* status and headers; only the bytes of their bodies are chosen apart.    *)
(* The second call is kept in peer.  The value a call returns is decided   *)
(* after the last record is written and is no part of this section.        *)
(***************************************************************************)
LogLevels == {"Off", "Debug", "Trace"}

\* log::log_enabled!(level)
log_enabled(max_level, level) ==
  \/ max_level = "Trace" /\ level \in {"Debug", "Trace"}
  \/ max_level = "Debug" /\ level = "Debug"

\* str::contains over the strings of the model
Affixes == {"", "; charset=utf-8"}
str_contains(text, pat) == \E pre \in Affixes : \E post \in Affixes : text = pre \o pat \o post

\* the pieces of a formatted record
Lit(text) == [lit |-> text]
ShownPath(p) == [path |-> p]
ShownUrl(u) == [url |-> u]

\* String::from_utf8_lossy of a body (the bodies of the model are UTF-8)
from_utf8_lossy(data) == [lossy |-> data]

\* an endpoint of a caller with the capability flag has_secrets
LegacyEndpoint(path, has_secrets, body) ==
  [name |-> "Legacy", method |-> "POST", endpoint |-> path,
   has_secrets |-> has_secrets, body |-> body]

JsonUtf8 == "application/json; charset=utf-8"
LogData == {to_vec(Obj1("password", JStr("a"))), to_vec(Obj1("password", JStr("b")))}
LogRequestBodies ==
  {BodyOk(None), BodyErr}
    \cup {BodyOk(Some([mime |-> m, data |-> d])) : m \in {JSON, "text/plain"}, d \in LogData}
LegacyEndpoints ==
  {LegacyEndpoint(p, h, b) : p \in UserPaths, h \in BOOLEAN, b \in LogRequestBodies}

LogResponseBodies ==
  {to_vec(Obj1("access_token", JStr("a"))), to_vec(Obj1("access_token", JStr("b")))}
LogResponses ==
  [status : {200, 404},
   headers : {EmptyHeaderMap} \cup
             {[n \in {"content-type"} |-> <<v>>] : v \in {JsonUtf8, "text/plain"}},
   body : LogResponseBodies]

\* RestClient::rest_endpoint of Traduora / AsyncTraduora: the debug record
rest_endpoint_log(max_level, endpoint) ==
  IF log_enabled(max_level, "Debug")
  THEN << [level |-> "Debug", text |-> <<Lit("REST api call "), ShownPath(endpoint)>>] >>
  ELSE <<>>

\* a request record that shows the body whatever the endpoint says
request_log_always(max_level, e, url, mime, data) ==
  IF log_enabled(max_level, "Trace")
  THEN IF str_contains(mime, JSON)
       THEN << [level |-> "Trace",
                text |-> <<Lit("Request to endpoint "), ShownUrl(url),
                           Lit(" with body "), from_utf8_lossy(data)>>] >>
       ELSE << [level |-> "Trace", text |-> <<Lit("Request to endpoint "), ShownUrl(url)>>] >>
  ELSE <<>>

\* the trace record of the request, in query and query_async alike
request_log(max_level, e, url, mime, data) ==
  IF log_enabled(max_level, "Trace")
  THEN IF str_contains(mime, JSON) /\ ~e.has_secrets
       THEN << [level |-> "Trace",
                text |-> <<Lit("Request to endpoint "), ShownUrl(url),
                           Lit(" with body "), from_utf8_lossy(data)>>] >>
       ELSE << [level |-> "Trace", text |-> <<Lit("Request to endpoint "), ShownUrl(url)>>] >>
  ELSE <<>>

\* is_content_type(headers, content_type)
is_content_type(headers, content_type) ==
  /\ "content-type" \in DOMAIN headers
  /\ str_contains(headers["content-type"][1], content_type)

\* the trace record of the response: query writes one in either case (with
\* the words of the request record), query_async only the one with the body
response_log(max_level, style, e, url, r) ==
  IF ~log_enabled(max_level, "Trace") THEN <<>>
  ELSE IF style = "query"
  THEN IF is_content_type(r.headers, JSON) /\ ~e.has_secrets
       THEN << [level |-> "Trace",
                text |-> <<Lit("Request to endpoint "), ShownUrl(url),
                           Lit(" with body "), from_utf8_lossy(r.body)>>] >>
       ELSE << [level |-> "Trace", text |-> <<Lit("Request to endpoint "), ShownUrl(url)>>] >>
  ELSE IF ~e.has_secrets /\ is_content_type(r.headers, JSON)
       THEN << [level |-> "Trace",
                text |-> <<Lit("Response from endpoint "), ShownUrl(url),
                           Lit(" with body "), from_utf8_lossy(r.body)>>] >>
       ELSE <<>>

\* the descriptor e with the bytes of its body replaced
WithData(e, d) ==
  IF e.body.ok /\ e.body.v # None
  THEN [e EXCEPT !.body = BodyOk(Some([mime |-> e.body.v[1].mime, data |-> d]))]
  ELSE e

\* (mime, data) = self.body()?.unwrap_or_default()
unwrap_or_default(b) == IF b = None THEN [mime |-> "", data |-> <<>>] ELSE b[1]

\* query / query_async of api/endpoint.rs up to the call of the transport,
\* as a function of the logger: the records written and the request
LegacyBuild(max_level, c, e) ==
  LET url == rest_endpoint(c, e.endpoint)
      l == rest_endpoint_log(max_level, e.endpoint)
  IN IF ~url.ok \/ ~e.body.ok THEN [ok |-> FALSE, records |-> l]
     ELSE LET b == unwrap_or_default(e.body.v) IN
          [ok |-> TRUE,
           records |-> l \o request_log(max_level, e, url.v, b.mime, b.data),
           req |-> [req |-> [method |-> e.method, uri |-> url.v, inner_ok |-> TRUE,
                             headers |-> [content_type |->
                                            IF b.mime # "" THEN Some(b.mime) ELSE None,
                                          authorization |-> None]],
                    data |-> b.data]]

InitLog ==
  /\ client \in Clients
  /\ pc = "idle"
  /\ call = Nil
  /\ req = Nil
  /\ rsp = Nil
  /\ result = Nil
  /\ rest_calls = 0
  /\ exchanges = 0
  /\ builder = Nil
  /\ log \in [max_level : LogLevels, records : {<<>>}]
  /\ peer = Nil

\* the two calls up to the transport; the second has the body bytes d
LegacyQuery(e, d) ==
  /\ pc = "idle"
  /\ LET style == IF client.kind = "Traduora" THEN "query" ELSE "query_async"
         mine_b == LegacyBuild(log.max_level, client, e)
         peer_b == LegacyBuild(log.max_level, client, WithData(e, d))
     IN /\ call' = [e |-> e, style |-> style]
        /\ log' = [log EXCEPT !.records = @ \o mine_b.records]
        /\ peer' = [e |-> WithData(e, d), records |-> peer_b.records,
                    req |-> IF peer_b.ok THEN peer_b.req ELSE Nil, rsp |-> Nil]
        /\ req' = IF mine_b.ok THEN mine_b.req ELSE Nil
        /\ pc' = IF mine_b.ok THEN "built" ELSE "done"
  /\ UNCHANGED <<builder, client, rsp, result, rest_calls, exchanges>>

\* the transport fails both calls: `?` returns before a record is written
LegacyRestFails ==
  /\ pc = "built"
  /\ pc' = "done"
  /\ rest_calls' = rest_calls + 1
  /\ UNCHANGED <<log, builder, peer, client, call, req, rsp, result, exchanges>>

\* the transport answers: r to the first call, r with the body bytes d to
\* the second; each call writes its record of the response
LegacyRestResponds(r, d) ==
  /\ pc = "built"
  /\ rsp' = r
  /\ log' = [log EXCEPT !.records =
               @ \o response_log(log.max_level, call.style, call.e, req.req.uri, r)]
  /\ peer' = [peer EXCEPT
               !.rsp = [r EXCEPT !.body = d],
               !.records = @ \o response_log(log.max_level, call.style, peer.e,
                                             peer.req.req.uri, [r EXCEPT !.body = d])]
  /\ pc' = "done"
  /\ rest_calls' = rest_calls + 1
  /\ UNCHANGED <<builder, client, call, req, result, exchanges>>

LegacyQueries == \E e \in LegacyEndpoints : \E d \in LogData : LegacyQuery(e, d)
LegacyRest == \E r \in LogResponses : \E d \in LogResponseBodies : LegacyRestResponds(r, d)

NextLog ==
  \/ LegacyQueries
  \/ LegacyRestFails
  \/ LegacyRest

SpecLog == InitLog /\ [][NextLog]_vars

\* the bodies of a finished or running call: request bytes, response bytes
BodiesOf(e, r) ==
  (IF e.body.ok /\ e.body.v # None THEN {e.body.v[1].data} ELSE {})
    \cup (IF r # Nil THEN {r.body} ELSE {})

\* the pieces of all records of a log
Pieces(records) ==
  UNION {{records[i].text[j] : j \in 1..Len(records[i].text)} : i \in 1..Len(records)}

\* C27: when has_secrets() is true, neither the request body nor the response
\* body is part of any record that query / query_async write, and two calls
\* that differ only in the bytes of their bodies write identical records.
C27_SecretsNotLogged ==
  call # Nil /\ call.e.has_secrets =>
    /\ \A b \in BodiesOf(call.e, rsp) \cup BodiesOf(peer.e, peer.rsp) :
         from_utf8_lossy(b) \notin Pieces(log.records) \cup Pieces(peer.records)
    /\ log.records = peer.records

\* two finished calls with secrets, JSON bodies that differ in request and
\* response, and trace logging switched on
C27_Witness ==
  /\ pc = "done"
  /\ call.e.has_secrets
  /\ log.max_level = "Trace"
  /\ rsp # Nil
  /\ req.req.headers.content_type = Some(JSON)
  /\ rsp.headers = [n \in {"content-type"} |-> <<JsonUtf8>>]
  /\ req.data # peer.req.data
  /\ rsp.body # peer.rsp.body
  /\ Len(log.records) = IF call.style = "query" THEN 3 ELSE 2

\* C28: every request that reached the server for an endpoint whose required
\* scope is Authenticated carries an Authorization header with a Bearer
\* value, for Traduora and AsyncTraduora, whatever scope the client holds.
C28_AuthenticatedCarriesBearer ==
  rsp # Nil /\ call.e.access = "Authenticated" =>
    /\ req.req.headers.authorization # None
    /\ req.req.headers.authorization[1].value[1] = "Bearer "

(***************************************************************************)
(* Urls of descriptors that write identifiers into their path.             *)
(***************************************************************************)
\* ShowProject(id).endpoint(): format!("projects/{}", self.0)
ShowProject_endpoint(id) == <<"projects">> \o Split(id)

\* the paths of ShowProject and DeleteLocale over the ids of the model
UrlIds == CraftedIds \cup {ShortId}
UrlPaths ==
  {ShowProject_endpoint(id) : id \in UrlIds}
    \cup {DeleteLocale(p, l).endpoint : p \in UrlIds, l \in UrlIds}

InitUrl ==
  /\ client \in Clients
  /\ pc = "idle"
  /\ call \in [endpoint : UrlPaths]
  /\ req = Nil
  /\ rsp = Nil
  /\ result = Nil
  /\ rest_calls = 0
  /\ exchanges = 0
  /\ builder = Nil
  /\ log = LogOff
  /\ peer = Nil

\* client.rest_endpoint(&endpoint.endpoint())
RestEndpoint ==
  /\ pc = "idle"
  /\ result' = rest_endpoint(client, call.endpoint)
  /\ pc' = "done"
  /\ UNCHANGED <<log, builder, peer, client, call, req, rsp, rest_calls, exchanges>>

SpecUrl == InitUrl /\ [][RestEndpoint]_vars

\* the url u lies below the API root: same scheme and host, and a path that
\* starts with /api/v1/
BelowRoot(u, root) ==
  /\ u.scheme = root.scheme
  /\ u.host = root.host
  /\ Len(u.segs) >= Len(root.segs)
  /\ SubSeq(u.segs, 1, Len(root.segs) - 1) = SubSeq(root.segs, 1, Len(root.segs) - 1)

\* C29: for every descriptor and every identifier written into its path
\* (also one with a slash, with `..` segments or with a leading slash) the
\* url the request goes to has the API root {scheme}://{host}/api/v1/ as a
\* prefix.
C29_UrlBelowApiRoot ==
  pc = "done" /\ result.ok => BelowRoot(result.v, client.rest_url)

(***************************************************************************)
(* The raw response of rest / rest_async.  rsp is the response the server  *)
(* sends, result what the call returns to the query.                       *)
(***************************************************************************)
\* responses with none, one and two values of set-cookie
RawHeaderMaps ==
  {JsonHeaders}
    \cup {[n \in {"content-type", "set-cookie"} |->
             IF n = "content-type" THEN <<JSON>> ELSE c] :
          c \in {<<"a=1">>, <<"a=1", "b=2">>}}
RawResponses ==
  [status : {200, 404}, headers : RawHeaderMaps, body : {<<>>, <<TNull>>}]

InitRaw ==
  /\ client \in Clients
  /\ pc = "built"
  /\ call \in {[e |-> e, style |-> IF client.kind = "Traduora" THEN "query"
                                   ELSE "query_async",
                mapper |-> [f |-> e.map, ty |-> e.model]] : e \in {Providers, DeleteMe}}
  /\ ScopeBound(call.e, client)
  /\ LET b == build_request_with_body(call.e, client) IN
     req = [req |-> b.req, data |-> b.data]
  /\ rsp \in RawResponses
  /\ result = Nil
  /\ rest_calls = 0
  /\ exchanges = 0
  /\ builder = Nil
  /\ log = LogOff
  /\ peer = Nil

\* client.rest(req, data) / client.rest_async(req, data) answered by the
\* response rsp of the server
RawRest ==
  /\ pc = "built"
  /\ result' = Transport(client, req.req, ExchangeOk(rsp))
  /\ pc' = "done"
  /\ rest_calls' = rest_calls + 1
  /\ UNCHANGED <<log, builder, peer, client, call, req, rsp, exchanges>>

SpecRaw == InitRaw /\ [][RawRest]_vars

\* C30: the raw response that rest / rest_async return has the status, the
\* body bytes and the headers of the response of the server, with every
\* value of a header name that occurs more than once.
C30_RawResponseFaithful ==
  pc = "done" /\ result.ok =>
    /\ result.rsp.status = rsp.status
    /\ result.rsp.body = rsp.body
    /\ DOMAIN result.rsp.headers = DOMAIN rsp.headers
    /\ \A n \in DOMAIN rsp.headers : result.rsp.headers[n] = rsp.headers[n]

====
